---- MODULE Spec2Model ----
(***************************************************************************)
(* DUY Energy (app.js): a browser client that polls a Shelly device for    *)
(* its instantaneous power, integrates the readings into peak ("pico")     *)
(* and off-peak ("llano") energy of the current day, persists the tallies  *)
(* in localStorage and renders them.                                       *)
(*                                                                         *)
(* Units.  One unit of time is ten minutes (600000 ms), counted from UTC   *)
(* midnight of day 0.  Power is in watts.  Energy is kept exactly, in      *)
(* watt-ticks: UnitsPerKWh watt-ticks are one kWh, so the code's           *)
(* (lastPower * elapsedHours) / 1000 is lastPower * elapsedTicks here.     *)
(* Floating-point rounding of the sums is not modelled; the rounding done  *)
(* by toFixed is.                                                          *)
(***************************************************************************)
EXTENDS Integers, FiniteSets, Sequences, TLC

VARIABLES
    state,     \* the module-level `state` object of app.js
    stored,    \* localStorage item 'duyEnergyData'
    display,   \* innerText of the four metric cards
    phase,     \* "unloaded": no page; "running": init() has run
    timer,     \* the setInterval poll timer is armed
    inflight,  \* getShellyStatus calls awaiting their response
    tz,        \* the host's local-time offset from UTC, in ticks
    alert,     \* an alert() dialog is open
    nSamples,  \* handleNewPowerMeasurement calls so far
    failed,    \* "yes": the latest request of this page to settle failed;
               \* "recovered": one failed and a later one did not
    hist       \* observer of the sample stream (single-day runs)

vars == <<state, stored, display, phase, timer, inflight, tz, alert,
          nSamples, failed, hist>>

----------------------------------------------------------------------------
(* Bounds of the model *)

MaxSamples == 2
MaxInFlight == 2
MaxDaySamples == 4

----------------------------------------------------------------------------
(* Time *)

TicksPerHour == 6
HoursPerDay == 24
TicksPerDay == TicksPerHour * HoursPerDay
WattsPerKW == 1000
UnitsPerKWh == WattsPerKW * TicksPerHour

\* Clock readings of a day, as ticks after UTC midnight:
\* 00:10, 03:10, 17:30, 23:50.
DayMarks == {1, 19, 105, 143}
\* Two consecutive UTC days.
Days == {1, 2}
Instants == {d * TicksPerDay + m : d \in Days, m \in DayMarks}

\* UTC and UTC-03:00 (Uruguay).
TzOffsets == {0, -(3 * TicksPerHour)}

Null == -1

\* new Date(t).toISOString().slice(0, 10): the UTC calendar date, as a day number.
IsoDate(t) == t \div TicksPerDay

\* new Date(t).getHours(): the local clock-hour.
getHours(t, offset) == ((t + offset) \div TicksPerHour) % HoursPerDay

\* The calendar date of t in local time.
LocalDate(t, offset) == (t + offset) \div TicksPerDay

PeakStartHour == 17
PeakEndHour == 21

\* As IsPeak, with the window open at its start: (17, 21).
IsPeak_afterStart(hour) == hour > PeakStartHour /\ hour < PeakEndHour

IsPeak(hour) == hour >= PeakStartHour /\ hour < PeakEndHour

----------------------------------------------------------------------------
(* The state object and its persistence *)

Fields == {"lastTimestamp", "lastPower", "picoEnergy", "llanoEnergy", "day"}

InitialState ==
    [lastTimestamp |-> Null, lastPower |-> 0, picoEnergy |-> 0,
     llanoEnergy |-> 0, day |-> Null]

\* The item is absent, is text JSON.parse rejects, is the JSON literal null,
\* or is a JSON object with the properties `has` and their values `val`.
Absent == [kind |-> "absent", has |-> {}, val |-> InitialState]
Unparsable == [kind |-> "unparsable", has |-> {}, val |-> InitialState]
JsonNull == [kind |-> "null", has |-> {}, val |-> InitialState]

\* JSON.stringify(state)
Stringify(st) == [kind |-> "object", has |-> Fields, val |-> st]

\* Object.assign(st, parsed): own properties of parsed overwrite those of st.
Assign(st, parsed) ==
    [f \in Fields |-> IF f \in parsed.has THEN parsed.val[f] ELSE st[f]]

loadState(item, st, now) ==
    IF item.kind = "object"
    THEN IF "day" \in item.has /\ item.val.day = IsoDate(now)
         THEN Assign(st, item)
         ELSE st
    ELSE st

\* As saveState, with the write lost.
saveState_lost(item, st, ok) == item

saveState(item, st, ok) == IF ok THEN Stringify(st) ELSE item

\* A foreign or damaged object under the key: a negative tally, fields missing.
ForeignObjects ==
    {[kind |-> "object", has |-> {"day", "picoEnergy", "lastPower"},
      val |-> [InitialState EXCEPT !.day = d, !.picoEnergy = -WattsPerKW,
                                   !.lastPower = WattsPerKW]] : d \in Days}

StoreContents == {Absent, Unparsable, JsonNull} \cup ForeignObjects

----------------------------------------------------------------------------
(* Display *)

\* Number.prototype.toFixed rounds the magnitude to the nearest, halves up.
RoundDiv(n, d) ==
    IF n >= 0 THEN (2 * n + d) \div (2 * d) ELSE -((2 * (-n) + d) \div (2 * d))

\* x.toFixed(3) of an energy in kWh, as thousandths of a kWh.
toFixed3(e) == RoundDiv(e * 1000, UnitsPerKWh)

\* indice.toFixed(1), as tenths of a percent.
Indice(st) ==
    LET total == st.picoEnergy + st.llanoEnergy
    IN IF total > 0 THEN RoundDiv(st.llanoEnergy * 100 * 10, total) ELSE 0

Unrendered == [shown |-> FALSE, total |-> 0, pico |-> 0, llano |-> 0, indice |-> 0]

updateMetrics(st) ==
    [shown |-> TRUE,
     total |-> toFixed3(st.picoEnergy + st.llanoEnergy),
     pico |-> toFixed3(st.picoEnergy),
     llano |-> toFixed3(st.llanoEnergy),
     indice |-> Indice(st)]

----------------------------------------------------------------------------
(* Accumulator *)

\* As Rollover, with state.day set only when a new day has started.
Rollover_dayOnReset(st, today) ==
    IF st.day # Null /\ st.day # today
    THEN [st EXCEPT !.picoEnergy = 0, !.llanoEnergy = 0, !.lastTimestamp = Null,
                    !.day = today]
    ELSE st

\* Lines 92-97: the day-rollover check and state.day = today.
Rollover(st, today) ==
    IF st.day # Null /\ st.day # today
    THEN [st EXCEPT !.picoEnergy = 0, !.llanoEnergy = 0, !.lastTimestamp = Null,
                    !.day = today]
    ELSE [st EXCEPT !.day = today]

\* As Integrate, with the bucket chosen by the hour of the current instant.
Integrate_currentHour(st, now, offset) ==
    IF st.lastTimestamp # Null
    THEN LET elapsed == now - st.lastTimestamp
             energyDelta == st.lastPower * elapsed
             hour == getHours(now, offset)
         IN IF IsPeak(hour)
            THEN [st EXCEPT !.picoEnergy = @ + energyDelta]
            ELSE [st EXCEPT !.llanoEnergy = @ + energyDelta]
    ELSE st

\* Lines 99-113: the integration step.
Integrate(st, now, offset) ==
    IF st.lastTimestamp # Null
    THEN LET elapsed == now - st.lastTimestamp
             energyDelta == st.lastPower * elapsed
             hour == getHours(st.lastTimestamp, offset)
         IN IF IsPeak(hour)
            THEN [st EXCEPT !.picoEnergy = @ + energyDelta]
            ELSE [st EXCEPT !.llanoEnergy = @ + energyDelta]
    ELSE st

\* As handleNewPowerMeasurement, with the new reading stored before the
\* interval that just ended is integrated.
handleNewPowerMeasurement_newReading(st, power, now, offset) ==
    [Integrate([Rollover(st, IsoDate(now)) EXCEPT !.lastPower = power], now, offset)
        EXCEPT !.lastTimestamp = now, !.lastPower = power]

\* The state after handleNewPowerMeasurement(power) run at instant now.
handleNewPowerMeasurement(st, power, now, offset) ==
    [Integrate(Rollover(st, IsoDate(now)), now, offset)
        EXCEPT !.lastTimestamp = now, !.lastPower = power]

----------------------------------------------------------------------------
(* Sampler *)

Powers == {-WattsPerKW, 0, WattsPerKW}

\* What a status request ends in: fetch rejects; response.json() rejects;
\* meters[0] is null; no meters property; an empty meters array; meters[0]
\* without power; meters[0].power is a number.
FailureKinds == {"neterr", "badjson", "nullmeter"}
DefaultKinds == {"nometers", "emptymeters", "nopower"}
Responses ==
    {[kind |-> k, power |-> 0] : k \in FailureKinds \cup DefaultKinds}
    \cup {[kind |-> "reading", power |-> p] : p \in Powers}

\* As Throws, with a status that lacks the power value thrown on as well.
Throws_onMissing(resp) == resp.kind \in FailureKinds \cup DefaultKinds

\* As Throws, with a body that cannot be parsed read as an empty status.
Throws_jsonIgnored(resp) == resp.kind \in {"neterr", "nullmeter"}

\* Whether the try block of getShellyStatus throws before line 81.
Throws(resp) == resp.kind \in FailureKinds

\* Lines 75-80.
ExtractPower(resp) == IF resp.kind = "reading" THEN resp.power ELSE 0

\* As Rearm, for a timer that is re-armed only at the end of the try block.
Rearm_onSuccess(t, resp) == t /\ resp.kind \notin FailureKinds

\* setInterval (line 153) is never cleared: a poll leaves the timer as it is.
Rearm(t, resp) == t

\* What the observer `failed` notes when a request settles with resp.
Settled(f, resp) ==
    IF resp.kind \in FailureKinds THEN "yes"
    ELSE IF f = "yes" THEN "recovered" ELSE f

NoHist == [sum |-> 0, dates |-> {}, prevT |-> Null, prevP |-> 0]

----------------------------------------------------------------------------
(* The event loop *)

\* Before the page is first opened, on a profile with nothing under the key.
Init ==
    /\ state = InitialState
    /\ stored = Absent
    /\ display = Unrendered
    /\ phase = "unloaded"
    /\ timer = FALSE
    /\ inflight = 0
    /\ tz \in TzOffsets
    /\ alert = FALSE
    /\ nSamples = 0
    /\ failed = "no"
    /\ hist = NoHist

\* DOMContentLoaded: init(), run at instant now.
init(now) ==
    /\ phase = "unloaded"
    /\ state' = loadState(stored, state, now)
    /\ display' = updateMetrics(state')
    /\ phase' = "running"
    /\ timer' = TRUE
    /\ inflight' = 1
    /\ failed' = "no"
    /\ UNCHANGED <<stored, tz, alert, nSamples, hist>>

\* The interval timer fires: getShellyStatus() up to its first await.
TimerTick ==
    /\ phase = "running"
    /\ ~alert
    /\ timer
    /\ inflight < MaxInFlight
    /\ inflight' = inflight + 1
    /\ UNCHANGED <<state, stored, display, phase, timer, tz, alert, nSamples,
                   failed, hist>>

\* As getShellyStatus, with the response of a request dropped when another
\* request is still in flight.
getShellyStatus_deduplicated(resp, now, ok) ==
    /\ phase = "running"
    /\ ~alert
    /\ inflight > 0
    /\ inflight' = inflight - 1
    /\ timer' = Rearm(timer, resp)
    /\ failed' = Settled(failed, resp)
    /\ IF Throws(resp) \/ inflight > 1
       THEN UNCHANGED <<state, stored, display, nSamples>>
       ELSE /\ nSamples < MaxSamples
            /\ state' = handleNewPowerMeasurement(state, ExtractPower(resp), now, tz)
            /\ stored' = saveState(stored, state', ok)
            /\ display' = updateMetrics(state')
            /\ nSamples' = nSamples + 1
    /\ UNCHANGED <<phase, tz, alert, hist>>

\* A status request settles with resp: the rest of getShellyStatus(), run at
\* instant now; ok tells whether localStorage.setItem succeeds.
getShellyStatus(resp, now, ok) ==
    /\ phase = "running"
    /\ ~alert
    /\ inflight > 0
    /\ inflight' = inflight - 1
    /\ timer' = Rearm(timer, resp)
    /\ failed' = Settled(failed, resp)
    /\ IF Throws(resp)
       THEN UNCHANGED <<state, stored, display, nSamples>>
       ELSE /\ nSamples < MaxSamples
            /\ state' = handleNewPowerMeasurement(state, ExtractPower(resp), now, tz)
            /\ stored' = saveState(stored, state', ok)
            /\ display' = updateMetrics(state')
            /\ nSamples' = nSamples + 1
    /\ UNCHANGED <<phase, tz, alert, hist>>

\* As controlShelly, with a switch-off that succeeds recorded as 0 W.
controlShelly_resets(turn, outcome) ==
    /\ phase = "running"
    /\ ~alert
    /\ turn \in {"on", "off"}
    /\ outcome \in {"ok", "rejected", "error"}
    /\ alert' = TRUE
    /\ state' = IF turn = "off" /\ outcome = "ok"
                THEN [state EXCEPT !.lastPower = 0]
                ELSE state
    /\ UNCHANGED <<stored, display, phase, timer, inflight, tz,
                   nSamples, failed, hist>>

\* A click on btn-on or btn-off: controlShelly(turn), up to the alert that
\* every outcome of the request ends in (response.ok, not ok, fetch rejects).
controlShelly(turn, outcome) ==
    /\ phase = "running"
    /\ ~alert
    /\ turn \in {"on", "off"}
    /\ outcome \in {"ok", "rejected", "error"}
    /\ alert' = TRUE
    /\ UNCHANGED <<state, stored, display, phase, timer, inflight, tz,
                   nSamples, failed, hist>>

\* The user closes the alert; until then the dialog blocks the event loop.
Dismiss ==
    /\ alert
    /\ alert' = FALSE
    /\ UNCHANGED <<state, stored, display, phase, timer, inflight, tz,
                   nSamples, failed, hist>>

\* The page is closed or reloaded: the script's globals are gone, the
\* localStorage item stays.
Unload ==
    /\ phase = "running"
    /\ state' = InitialState
    /\ display' = Unrendered
    /\ phase' = "unloaded"
    /\ timer' = FALSE
    /\ inflight' = 0
    /\ alert' = FALSE
    /\ failed' = "no"
    /\ UNCHANGED <<stored, tz, nSamples, hist>>

\* The catch block reads no clock and writes nothing: for a request that
\* fails, one reading and one write outcome stand for all.
ClockReads(resp) ==
    IF resp.kind \in FailureKinds THEN {CHOOSE t \in Instants : TRUE} ELSE Instants

WriteOutcomes(resp) ==
    IF resp.kind \in FailureKinds THEN {TRUE} ELSE BOOLEAN

Next ==
    \/ \E now \in Instants : init(now)
    \/ TimerTick
    \/ \E resp \in Responses :
          \E now \in ClockReads(resp), ok \in WriteOutcomes(resp) :
             getShellyStatus(resp, now, ok)
    \/ \E turn \in {"on", "off"}, outcome \in {"ok", "rejected", "error"} :
          controlShelly(turn, outcome)
    \/ Dismiss
    \/ Unload

Spec == Init /\ [][Next]_vars

\* The same program opened on a profile whose item may hold anything.
InitLoad ==
    /\ state = InitialState
    /\ stored \in StoreContents
    /\ display = Unrendered
    /\ phase = "unloaded"
    /\ timer = FALSE
    /\ inflight = 0
    /\ tz \in TzOffsets
    /\ alert = FALSE
    /\ nSamples = 0
    /\ failed = "no"
    /\ hist = NoHist

SpecLoad == InitLoad /\ [][Next]_vars

----------------------------------------------------------------------------
(* Runs of the accumulator alone: a page opened on an empty profile, then  *)
(* a stream of handleNewPowerMeasurement calls, observed by hist.          *)

InitDay ==
    /\ state = InitialState
    /\ stored = Absent
    /\ display = updateMetrics(InitialState)
    /\ phase = "running"
    /\ timer = TRUE
    /\ inflight = 0
    /\ tz \in TzOffsets
    /\ alert = FALSE
    /\ nSamples = 0
    /\ failed = "no"
    /\ hist = NoHist

\* What the observer notes of a sample: the energy of the interval since the
\* previous sample at the previous sample's power, and the sample's local date.
Observe(h, power, now, offset) ==
    [sum |-> h.sum + (IF h.prevT # Null THEN h.prevP * (now - h.prevT) ELSE 0),
     dates |-> h.dates \cup {LocalDate(now, offset)},
     prevT |-> now,
     prevP |-> power]

\* handleNewPowerMeasurement(power) run at instant now.
recordSample(power, now) ==
    /\ nSamples < MaxDaySamples
    /\ state' = handleNewPowerMeasurement(state, power, now, tz)
    /\ stored' = saveState(stored, state', TRUE)
    /\ display' = updateMetrics(state')
    /\ nSamples' = nSamples + 1
    /\ hist' = Observe(hist, power, now, tz)
    /\ UNCHANGED <<phase, timer, inflight, tz, alert, failed>>

NextDay == \E power \in Powers, now \in Instants : recordSample(power, now)

SpecDay == InitDay /\ [][NextDay]_vars

\* The same runs with the clock read at 17:00 and 17:30 local time of day 1,
\* of either time zone (17:00 local is 20:00 UTC at UTC-3).
FivePm == PeakStartHour * TicksPerHour
HalfPastFive == FivePm + TicksPerHour \div 2
ScenarioInstants ==
    {TicksPerDay + m - offset : m \in {FivePm, HalfPastFive}, offset \in TzOffsets}

NextScenario ==
    \E power \in Powers, now \in ScenarioInstants : recordSample(power, now)

SpecScenario == InitDay /\ [][NextScenario]_vars

----------------------------------------------------------------------------
(* Runs of the poller alone: the page just opened on an empty profile, its  *)
(* first request in flight, then timer ticks and responses.                 *)

InitPoll ==
    /\ state = InitialState
    /\ stored = Absent
    /\ display = updateMetrics(InitialState)
    /\ phase = "running"
    /\ timer = TRUE
    /\ inflight = 1
    /\ tz \in TzOffsets
    /\ alert = FALSE
    /\ nSamples = 0
    /\ failed = "no"
    /\ hist = NoHist

\* A device under load: the power it reports, when it reports one, is
\* positive.
LoadedResponses == {r \in Responses : r.kind = "reading" => r.power > 0}

NextPoll ==
    \/ TimerTick
    \/ \E resp \in LoadedResponses :
          \E now \in ClockReads(resp), ok \in WriteOutcomes(resp) :
             getShellyStatus(resp, now, ok)

SpecPoll == InitPoll /\ [][NextPoll]_vars

\* The poller with slow responses and a clock that never steps back: the
\* page's first request and the timer's requests are in flight together, and
\* each sample reads an instant not earlier than the sample before.
InitOverlap ==
    /\ state = InitialState
    /\ stored = Absent
    /\ display = updateMetrics(InitialState)
    /\ phase = "running"
    /\ timer = TRUE
    /\ inflight = MaxInFlight
    /\ tz \in TzOffsets
    /\ alert = FALSE
    /\ nSamples = 0
    /\ failed = "no"
    /\ hist = NoHist

LaterReads(resp) ==
    IF resp.kind \in FailureKinds THEN ClockReads(resp)
    ELSE {t \in Instants : state.lastTimestamp = Null \/ t >= state.lastTimestamp}

NextOverlap ==
    \/ TimerTick
    \/ \E resp \in Responses :
          \E now \in LaterReads(resp), ok \in WriteOutcomes(resp) :
             getShellyStatus(resp, now, ok)

SpecOverlap == InitOverlap /\ [][NextOverlap]_vars

----------------------------------------------------------------------------
(* Claims *)

\* C1: while all samples since the zeroed start fall on one local calendar
\* day, picoEnergy + llanoEnergy is the sum over consecutive sample pairs of
\* the earlier sample's power times the time between them.
C1_EnergyConservation ==
    Cardinality(hist.dates) <= 1
        => state.picoEnergy + state.llanoEnergy = hist.sum

\* C2: both tallies are non-negative in every reachable state.
C2_TalliesNonNegative ==
    state.picoEnergy >= 0 /\ state.llanoEnergy >= 0

\* A step that is handleNewPowerMeasurement(power) run at now.
SampleStep(power, now) ==
    /\ nSamples' = nSamples + 1
    /\ state' = handleNewPowerMeasurement(state, power, now, tz)

\* C3: a sample taken when the stored day is set and is not the sample's
\* local calendar date leaves both tallies at zero and day at the sample's date.
C3_DayRollover ==
    [][\A power \in Powers, now \in Instants :
          (SampleStep(power, now) /\ state.day # Null
             /\ state.day # LocalDate(now, tz))
          => (state'.picoEnergy = 0 /\ state'.llanoEnergy = 0
                /\ state'.day = LocalDate(now, tz))]_vars

\* C4: init() on a stored object whose day is not the local calendar date of
\* the load leaves the fresh zero state.
C4_StaleDayNotRestored ==
    [][\A now \in Instants :
          (init(now) /\ stored.kind = "object" /\ "day" \in stored.has
             /\ stored.val.day # LocalDate(now, tz))
          => state' = InitialState]_vars

\* A well-formed AccumulatorState: every field present, tallies non-negative,
\* a timestamp on the day the tallies belong to.
WellFormed(item) ==
    /\ item.kind = "object"
    /\ item.has = Fields
    /\ item.val.picoEnergy >= 0
    /\ item.val.llanoEnergy >= 0
    /\ item.val.day # Null
    /\ item.val.lastTimestamp # Null

\* C5: init() on an item that is absent, unparsable or no well-formed
\* AccumulatorState leaves the fresh zero state.
C5_MalformedStoreIgnored ==
    [][\A now \in Instants :
          (init(now) /\ ~WellFormed(stored)) => state' = InitialState]_vars

\* A step in which a request of the running page settles; failed' = "yes"
\* tells that it failed (a network error, a body that is not JSON, a null
\* meter).
PollSettles == inflight' = inflight - 1 /\ phase' = "running"

\* C6: a poll whose request fails, or whose response cannot be parsed, leaves
\* the state object, the stored item and the display as they were.
C6_FailedPollChangesNothing ==
    [][(PollSettles /\ failed' = "yes")
          => (state' = state /\ stored' = stored /\ display' = display)]_vars

\* A poll failed after a sample had been recorded and saved.
C6_Witness ==
    /\ failed = "yes"
    /\ state.lastTimestamp # Null
    /\ stored = Stringify(state)

\* C7: no step of the running page disarms the poll timer, whatever has
\* failed before; and a request that settles without failing after one that
\* failed has its sample recorded, whether or not the write succeeds.
C7_PollingNeverStops ==
    [][/\ phase' = "running" => timer'
       /\ (PollSettles /\ failed = "yes" /\ failed' = "recovered")
             => /\ nSamples' = nSamples + 1
                /\ state'.lastTimestamp \in Instants
                /\ state'.day = IsoDate(state'.lastTimestamp)
                /\ display' = updateMetrics(state')]_vars

\* A poll has recorded its sample after an earlier poll failed, and the next
\* one is in flight.
C7_Witness ==
    /\ failed = "recovered"
    /\ timer
    /\ inflight = MaxInFlight
    /\ state.lastTimestamp # Null

\* C8 as stated: whenever the page runs, the stored item is the snapshot of
\* the state object and the display is rendered from it.
C8_AlwaysConsistent ==
    phase = "running"
        => (stored = Stringify(state) /\ display = updateMetrics(state))

\* C8 as amended: whenever the page runs the display is rendered from the
\* state object; the stored item is the snapshot of the state object at the
\* end of every poll that records a sample and whose write succeeds.
C8_ConsistentAfterSavedSample ==
    [][/\ phase' = "running" => display' = updateMetrics(state')
       /\ (PollSettles /\ nSamples' = nSamples + 1
             /\ getShellyStatus([kind |-> "reading", power |-> state'.lastPower],
                                state'.lastTimestamp, TRUE))
             => stored' = Stringify(state')]_vars

\* A sample that integrated energy has been saved and rendered.
C8_Witness ==
    /\ phase = "running"
    /\ state.picoEnergy + state.llanoEnergy > 0
    /\ stored = Stringify(state)
    /\ display.total > 0

\* C9 as stated: a sample taken while lastTimestamp is absent changes
\* lastTimestamp and lastPower only.
C9_FirstSampleOnlyLast ==
    [][\A power \in Powers, now \in Instants :
          (state.lastTimestamp = Null /\ SampleStep(power, now))
          => state' = [state EXCEPT !.lastTimestamp = now, !.lastPower = power]]_vars

\* C9 as amended: a sample taken while lastTimestamp is absent sets
\* lastTimestamp, lastPower and day (to the UTC date of the instant) and adds
\* no energy: the tallies stay as they were, or are zeroed when the stored
\* day was another day.
C9_FirstSampleAddsNothing ==
    [][\A power \in Powers, now \in Instants :
          (state.lastTimestamp = Null /\ SampleStep(power, now))
          => LET today == now \div TicksPerDay
                 sameDay == state.day = Null \/ state.day = today
             IN /\ state'.lastTimestamp = now
                /\ state'.lastPower = power
                /\ state'.day = today
                /\ state'.picoEnergy = (IF sameDay THEN state.picoEnergy ELSE 0)
                /\ state'.llanoEnergy = (IF sameDay THEN state.llanoEnergy ELSE 0)]_vars

\* The first sample of the profile has been recorded, with a power that is not 0.
C9_Witness ==
    /\ nSamples = 1
    /\ state.lastTimestamp # Null
    /\ state.lastPower # 0
    /\ state.day # Null
    /\ state.picoEnergy = 0
    /\ state.llanoEnergy = 0

\* C10: a sample that integrates (a previous timestamp exists and the day
\* has not rolled over) adds lastPower times the elapsed time to picoEnergy
\* when the local hour of the previous timestamp is in [17, 21), to
\* llanoEnergy otherwise, and leaves the other tally as it was.
C10_BucketByStartHour ==
    [][LET now == state'.lastTimestamp
           power == state'.lastPower
       IN (state.lastTimestamp # Null /\ SampleStep(power, now)
             /\ (state.day = Null \/ state.day = IsoDate(now)))
          => LET delta == state.lastPower * (now - state.lastTimestamp)
                 h == ((state.lastTimestamp + tz) \div TicksPerHour) % HoursPerDay
             IN IF PeakStartHour <= h /\ h < PeakEndHour
                THEN /\ state'.picoEnergy = state.picoEnergy + delta
                     /\ state'.llanoEnergy = state.llanoEnergy
                ELSE /\ state'.llanoEnergy = state.llanoEnergy + delta
                     /\ state'.picoEnergy = state.picoEnergy]_vars

\* The only interval integrated so far began in the peak window and ended
\* after it, and all of its energy is in picoEnergy.
C10_Witness ==
    /\ nSamples = 2
    /\ state.picoEnergy > 0
    /\ state.llanoEnergy = 0
    /\ state.lastTimestamp # Null
    /\ ~IsPeak(getHours(state.lastTimestamp, tz))

\* The local time of day of instant t, in ticks since local midnight.
TimeOfDay(t, offset) == (t + offset) % TicksPerDay

\* A sample taken at 17:30 local when the previous one was taken at 17:00
\* local of the same day.
HalfHourInPeak(now) ==
    /\ state.lastTimestamp # Null
    /\ TimeOfDay(state.lastTimestamp, tz) = FivePm
    /\ TimeOfDay(now, tz) = HalfPastFive
    /\ LocalDate(state.lastTimestamp, tz) = LocalDate(now, tz)
    /\ state.day = IsoDate(now)

\* C11 as stated: a sample reporting 1000 W at 17:30, the previous sample
\* taken at 17:00 of the same day, adds 0.5 kWh to picoEnergy and nothing to
\* llanoEnergy.
C11_NewReadingHalfKWh ==
    [][LET now == state'.lastTimestamp
       IN (HalfHourInPeak(now) /\ SampleStep(WattsPerKW, now))
          => /\ state'.picoEnergy = state.picoEnergy + UnitsPerKWh \div 2
             /\ state'.llanoEnergy = state.llanoEnergy]_vars

\* C11 as amended: a sample at 17:30, the previous sample taken at 17:00 of
\* the same day and having reported 1000 W, adds 0.5 kWh to picoEnergy and
\* nothing to llanoEnergy, whatever the sample at 17:30 reports.
C11_HeldPowerHalfKWh ==
    [][LET now == state'.lastTimestamp
           power == state'.lastPower
       IN (HalfHourInPeak(now) /\ state.lastPower = WattsPerKW
             /\ SampleStep(power, now))
          => /\ state'.picoEnergy = state.picoEnergy + UnitsPerKWh \div 2
             /\ state'.llanoEnergy = state.llanoEnergy]_vars

\* 1000 W at 17:00, then a sample at 17:30 reporting 0 W: 0.5 kWh of peak
\* energy.
C11_Witness ==
    /\ nSamples = 2
    /\ state.picoEnergy = UnitsPerKWh \div 2
    /\ state.llanoEnergy = 0
    /\ state.lastPower = 0
    /\ TimeOfDay(state.lastTimestamp, tz) = HalfPastFive

\* C12: the state after a sample depends on the reported power in lastPower
\* only: the same call with any other power ends in the same tallies, day
\* and lastTimestamp.
C12_ZeroOrderHold ==
    [][LET now == state'.lastTimestamp
           power == state'.lastPower
       IN SampleStep(power, now)
          => \A other \in Powers :
                handleNewPowerMeasurement(state, other, now, tz)
                   = [state' EXCEPT !.lastPower = other]]_vars

\* Energy was integrated at 1000 W by a sample that itself reported -1000 W.
C12_Witness ==
    /\ nSamples = 2
    /\ state.lastPower = -WattsPerKW
    /\ state.picoEnergy + state.llanoEnergy > 0

\* llanoEnergy / total x 100 to one decimal, in tenths of a percent, for a
\* total that is not zero.
RatioTenths(llano, total) ==
    IF total > 0 THEN RoundDiv(llano * 100 * 10, total)
    ELSE RoundDiv((-llano) * 100 * 10, -total)

\* C13: the ratio shown is 0 when picoEnergy + llanoEnergy is zero and
\* llanoEnergy / (picoEnergy + llanoEnergy) x 100, to the one decimal shown,
\* in every other state.
C13_RatioShown ==
    phase = "running"
        => LET total == state.picoEnergy + state.llanoEnergy
           IN display.indice = IF total = 0 THEN 0
                               ELSE RatioTenths(state.llanoEnergy, total)

\* C14: a sample whose instant is not later than lastTimestamp, on the same
\* day, makes neither tally smaller.
C14_SkewNeverDecrements ==
    [][LET now == state'.lastTimestamp
           power == state'.lastPower
       IN (/\ state.lastTimestamp # Null
           /\ now <= state.lastTimestamp
           /\ state.day = IsoDate(now)
           /\ LocalDate(state.lastTimestamp, tz) = LocalDate(now, tz)
           /\ SampleStep(power, now))
          => /\ state'.picoEnergy >= state.picoEnergy
             /\ state'.llanoEnergy >= state.llanoEnergy]_vars

\* C15: a control command, whatever the button and whatever the outcome of
\* its request, changes no field of the state object and leaves the stored
\* item as it was.  (Only controlShelly opens the dialog.)
C15_ControlLeavesState ==
    [][(~alert /\ alert') => (state' = state /\ stored' = stored)]_vars

\* A command has been sent, and reported, after samples were recorded and
\* saved.
C15_Witness ==
    /\ alert
    /\ state.lastTimestamp # Null
    /\ state.lastPower # 0
    /\ stored = Stringify(state)

\* C16: the day is the local calendar date.  A sample stores the local date
\* of its instant in day; it zeroes the tallies when the previous sample was
\* taken on another local date and integrates the interval when it was taken
\* on the same one; and init restores a stored snapshot exactly when its day
\* is the local date of the load.
C16_DayIsLocalDate ==
    [][/\ LET now == state'.lastTimestamp
              power == state'.lastPower
          IN SampleStep(power, now)
             => /\ state'.day = LocalDate(now, tz)
                /\ state.lastTimestamp # Null
                      => IF LocalDate(state.lastTimestamp, tz) = LocalDate(now, tz)
                         THEN state'.picoEnergy + state'.llanoEnergy
                                 = state.picoEnergy + state.llanoEnergy
                                    + state.lastPower * (now - state.lastTimestamp)
                         ELSE state'.picoEnergy = 0 /\ state'.llanoEnergy = 0
       /\ \A now \in Instants :
             (init(now) /\ stored.kind = "object" /\ stored.has = Fields)
             => state' = IF stored.val.day = LocalDate(now, tz)
                         THEN stored.val
                         ELSE InitialState]_vars

\* C17: whenever lastTimestamp is present, day is set and is the local
\* calendar date of lastTimestamp.
C17_OneCalendarDay ==
    state.lastTimestamp # Null
        => (state.day # Null /\ LocalDate(state.lastTimestamp, tz) = state.day)

\* C18: a request that succeeds with a status carrying no meter list, an
\* empty one, or no power for meter 0 records one sample of 0 W at the
\* instant it is handled.
C18_MissingPowerIsZero ==
    [][PollSettles
          => \A resp \in {r \in Responses : r.kind \in DefaultKinds},
                now \in Instants, ok \in BOOLEAN :
                getShellyStatus(resp, now, ok)
                => /\ nSamples' = nSamples + 1
                   /\ state'.lastPower = 0
                   /\ state'.lastTimestamp = now
                   /\ display' = updateMetrics(state')]_vars

\* The device reports no 0 W itself: the sample of 0 W that closed an
\* interval integrated at 1000 W came from a status without a power value.
C18_Witness ==
    /\ nSamples = 2
    /\ state.lastPower = 0
    /\ state.lastTimestamp # Null
    /\ state.picoEnergy + state.llanoEnergy > 0

\* C19: with requests overlapping and a clock that never steps back, every
\* request that settles without failing is one whole
\* handleNewPowerMeasurement call: one sample more, the state that of the
\* call applied to the state before, saved or not and rendered in the same
\* step; lastTimestamp never decreases; and while the held power is not
\* negative no tally decreases unless the day rolls over.  A timer tick
\* records nothing.
C19_OverlappingPolls ==
    [][/\ (PollSettles /\ failed' # "yes")
             => /\ nSamples' = nSamples + 1
                /\ SampleStep(state'.lastPower, state'.lastTimestamp)
                /\ display' = updateMetrics(state')
                /\ stored' \in {stored, Stringify(state')}
                /\ state'.lastTimestamp \in Instants
                /\ state'.lastTimestamp >= state.lastTimestamp
                /\ state.lastPower >= 0
                      => IF state.day # Null /\ state.day # state'.day
                         THEN state'.picoEnergy = 0 /\ state'.llanoEnergy = 0
                         ELSE /\ state'.picoEnergy >= state.picoEnergy
                              /\ state'.llanoEnergy >= state.llanoEnergy
       /\ inflight' = inflight + 1
             => (state' = state /\ stored' = stored /\ nSamples' = nSamples)]_vars

\* No request has failed and no timer tick has come since the requests were
\* issued: both samples were recorded from requests that were in flight
\* together, and energy was integrated between them.
C19_Witness ==
    /\ failed = "no"
    /\ nSamples = 2
    /\ inflight = MaxInFlight - 2
    /\ state.picoEnergy + state.llanoEnergy > 0

\* C20: a page loaded on the local day of the stored snapshot, not before
\* the snapshot's lastTimestamp, starts from the snapshot (lastTimestamp,
\* lastPower and tallies); and a sample taken from a state equal to the
\* snapshot, on that same day and not before its lastTimestamp, adds
\* lastPower times the whole time since lastTimestamp to the tally of
\* lastTimestamp's local hour, so that with lastPower >= 0 no tally is lower
\* than the stored one.
C20_SameDayRestart ==
    [][/\ \A now \in Instants :
             (/\ init(now)
              /\ stored.kind = "object" /\ stored.has = Fields
              /\ stored.val.lastTimestamp # Null
              /\ now >= stored.val.lastTimestamp
              /\ LocalDate(stored.val.lastTimestamp, tz) = LocalDate(now, tz))
             => state' = stored.val
       /\ LET now == state'.lastTimestamp
              power == state'.lastPower
          IN (/\ SampleStep(power, now)
              /\ stored = Stringify(state)
              /\ state.lastTimestamp # Null
              /\ now >= state.lastTimestamp
              /\ LocalDate(state.lastTimestamp, tz) = LocalDate(now, tz))
             => LET delta == state.lastPower * (now - state.lastTimestamp)
                    peak == IsPeak(getHours(state.lastTimestamp, tz))
                IN /\ state'.picoEnergy
                         = state.picoEnergy + (IF peak THEN delta ELSE 0)
                   /\ state'.llanoEnergy
                         = state.llanoEnergy + (IF peak THEN 0 ELSE delta)
                   /\ state.lastPower >= 0
                         => /\ state'.picoEnergy >= stored.val.picoEnergy
                            /\ state'.llanoEnergy >= stored.val.llanoEnergy]_vars

====
